---------------------------- MODULE Spec2Model ----------------------------
(***************************************************************************)
(* Ouro trader: the session script src/ouro_trader.py (await open, active  *)
(* trading, early wind-down, final liquidation) with the clock and broker  *)
(* helpers of src/ouro_lib.py.                                             *)
(*                                                                         *)
(* Python floats are modelled as exact rationals [n, d] in lowest terms,   *)
(* so every comparison of the sizing block is decided as the real-valued   *)
(* arithmetic decides it.                                                  *)
(***************************************************************************)
EXTENDS Integers, Sequences, FiniteSets, TLC

(***************************************************************************)
(* Rational arithmetic (the float expressions of the sizing block).        *)
(***************************************************************************)
RECURSIVE GCD(_, _)
GCD(a, b) == IF b = 0 THEN a ELSE GCD(b, a % b)

Abs(x) == IF x < 0 THEN -x ELSE x

Rat(n, d) ==
    LET s == IF d < 0 THEN -1 ELSE 1
        g == GCD(Abs(n), Abs(d))
    IN  [n |-> (s * n) \div g, d |-> (s * d) \div g]

Num(k) == [n |-> k, d |-> 1]

RAdd(x, y) == Rat(x.n * y.d + y.n * x.d, x.d * y.d)
RSub(x, y) == Rat(x.n * y.d - y.n * x.d, x.d * y.d)
RMul(x, y) == Rat(x.n * y.n, x.d * y.d)
RDiv(x, y) == Rat(x.n * y.d, x.d * y.n)
RLt(x, y) == x.n * y.d < y.n * x.d
RLe(x, y) == x.n * y.d <= y.n * x.d
RGt(x, y) == RLt(y, x)
RGe(x, y) == RLe(y, x)

\* int(x): truncation toward zero
RInt(x) == IF x.n >= 0 THEN x.n \div x.d ELSE -((-x.n) \div x.d)


(***************************************************************************)
(* Session inputs: the ticker universe, the strategy catalog, yesterday's  *)
(* closing prices, the broker account and the inbound action feed.         *)
(***************************************************************************)
\* Tickers of the surge batch beyond the core ones (bound of the model).
NumCrowd == 8

CoreTickers == <<"T1", "T2", "T3", "T4", "T5">>
CrowdNames == <<"X1", "X2", "X3", "X4", "X5", "X6", "X7", "X8", "X9", "X10">>
CrowdTickers == SubSeq(CrowdNames, 1, NumCrowd)

Range(s) == {s[i] : i \in DOMAIN s}
Tickers == Range(CoreTickers) \cup Range(CrowdTickers)

\* familyreturns: Family -> AvgPctRtn of buy_strategies.csv
familyreturns ==
    [f \in {"Momentum", "Oscillator", "Candlestick"} |->
        IF f = "Momentum" THEN Rat(2, 100) ELSE Rat(5, 100)]

\* closeprices: ticker -> yesterday's close; T4 has no row in ohlcv_day
closeprices ==
    [t \in Tickers \ {"T4"} |->
        IF t = "T1" THEN Num(98)
        ELSE IF t \in Range(CoreTickers) THEN Num(100) ELSE Num(6000)]

\* maxriskratio = .004
maxriskratio == Rat(4, 1000)

\* accounts GetAccount() may report: buying_power, multiplier
Accounts == {[buying_power |-> 300004, multiplier |-> 4]}

\* what two successive get_clock calls (IsOpen, then IsEOD) can report:
\* a closed market is more than 75 minutes away from its next close
ClockReadings ==
    { [open |-> FALSE, late |-> FALSE],
      [open |-> TRUE, late |-> FALSE],
      [open |-> TRUE, late |-> TRUE] }

\* positions held in symbols outside Tickers when the session starts
OtherPositions == {3, 9}

\* one entry of broker-actions.json
Act(t, p, h, l, f) ==
    [stock |-> t, price |-> Num(p), recenthigh |-> Num(h),
     recentlow |-> Num(l), strategyfamily |-> f]

Trend(t) == Act(t, 100, 106, 99, "Oscillator")
Capped(t) == Act(t, 100, 101, 99, "Oscillator")
Gapped(t) == Act(t, 100, 105, 95, "Momentum")
Candle(t) == Act(t, 100, 100, 90, "Candlestick")
Pricey(t) == Act(t, 6000, 6300, 5880, "Candlestick")
Exotic(t) == Act(t, 100, 106, 99, "Breakout")
Dipped(t) == Act(t, 100, 106, 97, "Oscillator")
\* a sub-cent stock: price 0.002, recent high 0.002, recent low 0.00198
Penny(t) ==
    [stock |-> t, price |-> Rat(2, 1000), recenthigh |-> Rat(2, 1000),
     recentlow |-> Rat(198, 100000), strategyfamily |-> "Oscillator"]

CrowdActs == [i \in 1..NumCrowd |-> Pricey(CrowdTickers[i])]

\* the snapshots of broker-actions.json a tick may read, in file order
Batches ==
    { <<>>,
      <<Trend("T1")>>,
      <<Gapped("T1")>>,
      <<Capped("T1"), Candle("T2")>>,
      <<Trend("T1"), Candle("T2")>>,
      <<Candle("T2"), Exotic("T3")>>,
      <<Dipped("T3"), Trend("T4")>>,
      <<Penny("T5"), Trend("T4")>>,
      <<Trend("T1"), Capped("T2")>> \o CrowdActs }

\* the result sets the sell-early query may return
EarlyLists == { {}, {"T1"}, {"T1", "T2"} }


(***************************************************************************)
(* The sizing block of the per-ticker evaluation (ouro_trader.py 150-228). *)
(***************************************************************************)
\* the order-count gate of lines 162 and 179
MaxOrders == 10

\* inboundcount at which bandwagonning is assumed (line 139)
BandwagonCount == 10

\* lines 139-147
BandwagonDiscount(count) ==
    IF count >= BandwagonCount THEN Rat(3, 10) ELSE Num(1)

\* line 157
MaxRiskAmt(c, discount) == RMul(RMul(c, maxriskratio), discount)

\* line 170
OrderShares(capital, price) == RInt(RDiv(capital, price))

StopLossHitBelow(floorprice, recentlow) == RLt(floorprice, recentlow)

\* line 199
StopLossHit(floorprice, recentlow) == RGt(floorprice, recentlow)

\* line 204
MoreRiskThanReward(price, shares, floorpct, maxriskamt) ==
    RGt(RMul(RMul(price, Num(shares)), floorpct), maxriskamt)

\* line 206
AdjustedFloor(price, ceilingprice) ==
    RSub(price, RMul(RSub(ceilingprice, price), Rat(4, 10)))

\* line 220
ReturnAlreadyMet(price, yesterdayclose, traderet) ==
    RGe(RDiv(RSub(price, yesterdayclose), yesterdayclose), traderet)

\* line 225
BadTrade(traderet, traderiskpct) ==
    RLe(RSub(traderet, Rat(5, 1000)), traderiskpct)

ZeroedAfterStopLossRecomputed(hit, shares) == shares

\* lines 221 and 227: ordershares = 0 under a rejection
Zeroed(hit, shares) == IF hit THEN 0 ELSE shares

\* line 201: ordershares = 0; the count of line 170 was computed before
\* the check and is not computed again after it
ZeroedAfterStopLoss(hit, shares) == Zeroed(hit, shares)

ReasonKeepsFirst(hit, reason, previous) ==
    IF hit /\ previous = "Unknown" THEN reason ELSE previous

\* lines 200, 222, 228: a rejection assigns skipreason, whatever it held
ReasonAssigned(hit, reason, previous) == IF hit THEN reason ELSE previous

\* the inputs on which lines 151-220 raise (TypeError, KeyError,
\* ZeroDivisionError) instead of producing a decision
SizingRaises(a, count) ==
    \/ a.stock \notin DOMAIN closeprices
    \/ a.price.n = 0
    \/ /\ count < MaxOrders
       /\ \/ a.strategyfamily \notin DOMAIN familyreturns
          \/ closeprices[a.stock].n = 0

\* lines 150-228 for an action a with ordercount < 10: every local of the
\* block, in the order the code assigns them
Sizing(a, c, capital, discount) ==
    LET stockprice == a.price
        recenthigh == a.recenthigh
        recentlow == a.recentlow
        yesterdayclose == closeprices[a.stock]
        maxriskamt == MaxRiskAmt(c, discount)
        shares0 == OrderShares(capital, a.price)
        family == a.strategyfamily
        familyret == RMul(familyreturns[family], Rat(8, 10))
        floorpct == RMul(familyret, Rat(5, 10))
        floor0 == RMul(stockprice, RSub(Num(1), floorpct))
        ceiling0 == RMul(stockprice, RAdd(Num(1), familyreturns[family]))
        oscillator == family # "Candlestick"
        ceilingprice == IF oscillator /\ RGt(ceiling0, recenthigh)
                        THEN RSub(recenthigh, Rat(5, 100))
                        ELSE ceiling0
        stophit == oscillator /\ StopLossHit(floor0, recentlow)
        shares1 == ZeroedAfterStopLoss(stophit, shares0)
        reason1 == ReasonAssigned(stophit,
                     "Proposed stop-loss price already hit today", "Unknown")
        adjusted == MoreRiskThanReward(stockprice, shares1, floorpct, maxriskamt)
        floorprice == IF adjusted
                      THEN AdjustedFloor(stockprice, ceilingprice)
                      ELSE floor0
        traderiskamt == RMul(RSub(stockprice, floorprice), Num(shares1))
        traderiskpct == RDiv(RSub(stockprice, floorprice), stockprice)
        buylimit == RAdd(RMul(RSub(ceilingprice, stockprice), Rat(5, 100)),
                         stockprice)
        traderet == RDiv(RSub(ceilingprice, buylimit), buylimit)
        met == ReturnAlreadyMet(stockprice, yesterdayclose, traderet)
        shares2 == Zeroed(met, shares1)
        reason2 == ReasonAssigned(met,
                     "The potential return has already been met today.",
                     reason1)
        bad == BadTrade(traderet, traderiskpct)
        shares3 == Zeroed(bad, shares2)
        reason3 == ReasonAssigned(bad, "Risk outweighs reward", reason2)
    IN  [maxriskamt |-> maxriskamt, initialshares |-> shares0,
         familyret |-> familyret, basefloor |-> floor0,
         clamped |-> ceilingprice # ceiling0, stophit |-> stophit,
         adjusted |-> adjusted, floorprice |-> floorprice,
         ceilingprice |-> ceilingprice, traderiskamt |-> traderiskamt,
         traderiskpct |-> traderiskpct, buylimit |-> buylimit,
         traderet |-> traderet, met |-> met, bad |-> bad,
         ordershares |-> shares3, skipreason |-> reason3]


(***************************************************************************)
(* Session state.                                                          *)
(***************************************************************************)
VARIABLES
    phase,          \* where the script is: AwaitOpen .. Done
    crashed,        \* an exception no handler caught ended the process
    test,           \* cmdline.test
    forceopen,      \* cmdline.marketopen
    marketopen,     \* marketopen
    eod,            \* eod
    cash,           \* cash (Unassigned before line 108)
    tradecapital,   \* tradecapital
    boughtlist,     \* boughtlist, as ticker -> number of occurrences
    skiplist,       \* skiplist, as ticker -> number of occurrences
    status,         \* status: ticker -> latest record, NoRecord if no key
    inboundactions, \* the batch read by the current tick
    inboundcount,   \* inboundcount
    idx,            \* position of the for loop of line 138; 0 outside a tick
    ordercount,     \* ordercount
    earlylist,      \* earlylist, Unbound while the name is not assigned
    orders,         \* broker: symbols with an open order
    positions,      \* broker: symbols with a held position
    otherpositions, \* broker: positions held in symbols outside Tickers
    accepted,       \* broker: bracket orders accepted per symbol
    lasteval,       \* what the latest for-loop iteration did, and to whom
    eodseen,        \* IsEOD() of line 113 has returned True (test off)
    liquidation,    \* which calls of the final block were made, and how
    earlysold,      \* what the latest wind-down pass cancelled and closed
    df,             \* the DataFrame a caller of ouro_lib.calcind holds
    returned        \* what the calls of calcind returned, in call order

vars == <<phase, crashed, test, forceopen, marketopen, eod, cash,
          tradecapital, boughtlist, skiplist, status, inboundactions,
          inboundcount, idx, ordercount, earlylist, orders, positions,
          otherpositions, accepted, lasteval, eodseen, liquidation,
          earlysold, df, returned>>

\* orders accepted per symbol are counted up to this many (bound)
MaxAccepted == 2

NoRecord == [Decision |-> "none"]
\* a name the script has not assigned yet
Unbound == [bound |-> FALSE, rows |-> {}]
Bound(rows) == [bound |-> TRUE, rows |-> rows]
Unassigned == [n |-> 0, d |-> 0]
None == "None"

NoEval == [stock |-> None, outcome |-> "none"]
NoPass == [cancelled |-> {}, closed |-> {}]

Init ==
    /\ phase = "AwaitOpen"
    /\ crashed = FALSE
    /\ test \in BOOLEAN
    /\ forceopen \in BOOLEAN
    /\ \E clock \in ClockReadings :
          /\ marketopen = (forceopen \/ clock.open)
          /\ eod = (~forceopen /\ clock.late)
    /\ cash = Unassigned
    /\ tradecapital = Unassigned
    /\ boughtlist = [t \in Tickers |-> 0]
    /\ skiplist = [t \in Tickers |-> 0]
    /\ status = [t \in Tickers |-> NoRecord]
    /\ inboundactions = <<>>
    /\ inboundcount = 0
    /\ idx = 0
    /\ ordercount = 0
    /\ earlylist = Unbound
    /\ orders = {}
    /\ positions = {}
    /\ otherpositions \in OtherPositions
    /\ accepted = [t \in Tickers |-> 0]
    /\ lasteval = NoEval
    /\ eodseen = FALSE
    /\ liquidation = "none"
    /\ earlysold = NoPass
    /\ df = <<>>
    /\ returned = <<>>


(***************************************************************************)
(* Helpers of the session loop.                                            *)
(***************************************************************************)
SuccessorResumes(p) ==
    CASE p = "AwaitOpen" -> "ActiveTrading"
      [] p = "ActiveTrading" -> "EarlyWindDown"
      [] p = "EarlyWindDown" -> "ActiveTrading"
      [] OTHER -> "Done"

\* the script's blocks in the order they are written; nothing jumps back
Successor(p) ==
    CASE p = "AwaitOpen" -> "ActiveTrading"
      [] p = "ActiveTrading" -> "EarlyWindDown"
      [] p = "EarlyWindDown" -> "FinalLiquidation"
      [] p = "FinalLiquidation" -> "Done"
      [] OTHER -> "Done"

\* line 108 and 109
CashOf(account) ==
    RSub(RDiv(Num(account.buying_power), Num(account.multiplier)), Num(25001))

TradeCapitalOf(c) == RDiv(c, Num(10))

EligibleUnlessSkipped(stock) == skiplist[stock] = 0

EligibleUnlessBought(stock) == boughtlist[stock] = 0

\* lines 134 and 149: stock not in boughtlist and stock not in skiplist
Eligible(stock) == boughtlist[stock] = 0 /\ skiplist[stock] = 0

\* lines 132-135
RECURSIVE CountPending(_, _)
CountPending(batch, i) ==
    IF i > Len(batch) THEN 0
    ELSE (IF Eligible(batch[i].stock) THEN 1 ELSE 0) + CountPending(batch, i + 1)

\* ouro_lib.GetOrderCount: len(GetPositions())
GetOrderCount == otherpositions + Cardinality(positions)

InboundCountRecounted == CountPending(inboundactions, 1)

\* line 139: the for loop reads the inboundcount of lines 132-135
InboundCountAtEvaluation == inboundcount

OrderCountCached == ordercount

\* line 161: ordercount = ol.GetOrderCount() ahead of the gate of line 179
OrderCountAtGate == GetOrderCount

ActiveLoopIgnoringTest == marketopen /\ ~eod

\* line 111
ActiveLoopCondition == (marketopen /\ ~eod) \/ test

\* lines 307-312
SkipReason(z, stock, count) ==
    LET r1 == IF z.ordershares = 0 /\ z.skipreason = "Unknown"
              THEN "Stock is too expensive or unable to buy shares."
              ELSE z.skipreason
        r2 == IF boughtlist[stock] > 0 /\ r1 = "Unknown"
              THEN "Stock in bought list."
              ELSE r1
    IN  IF count >= MaxOrders /\ r2 = "Unknown"
        THEN "Too many existing positions"
        ELSE r2

\* the dict written to status[stock] (lines 255-275, 284-304, 318-338),
\* with the keys that carry the decision: Ticker, BuyPrice, BuyLimit,
\* MaxRiskAmt, TradeRiskAmt, TradeRiskPct, OrderShares, FloorPrice,
\* CeilingPrice, Decision and Reason. DateTime and the keys that repeat
\* session or batch values (Cash, TradeCapital, PortfolioRiskPct,
\* FamilyReturnPct, TradeReturnPct, RecentHigh, RecentLow) are left out.
StatusRecord(a, z, decision, reason) ==
    [Ticker |-> a.stock, BuyPrice |-> a.price, BuyLimit |-> z.buylimit,
     MaxRiskAmt |-> z.maxriskamt, TradeRiskAmt |-> z.traderiskamt,
     TradeRiskPct |-> z.traderiskpct,
     OrderShares |-> z.ordershares, FloorPrice |-> z.floorprice,
     CeilingPrice |-> z.ceilingprice, Decision |-> decision,
     Reason |-> reason]

BoughtAfterSuccessForgets(stock) == boughtlist

\* line 254: boughtlist.append(stock)
BoughtAfterSuccess(stock) ==
    [boughtlist EXCEPT ![stock] = @ + 1]

SkipAfterFailureAppends(stock) ==
    [skiplist EXCEPT ![stock] = @ + 1]

\* lines 279-281: the append to skiplist is commented out
SkipAfterFailure(stock) == skiplist

SkipAfterSkipForgets(stock) == skiplist

\* line 317: skiplist.append(stock)
SkipAfterSkip(stock) ==
    [skiplist EXCEPT ![stock] = @ + 1]

LiquidationUncaught == FALSE

\* lines 442-443: except Exception around both liquidation calls
LiquidationCaught == TRUE

Saturate(n) == IF n < MaxAccepted THEN n + 1 ELSE MaxAccepted


(***************************************************************************)
(* The script, block by block.                                             *)
(***************************************************************************)
feed == <<inboundactions, inboundcount, idx, ordercount>>
books == <<boughtlist, skiplist, status>>
broker == <<orders, positions, otherpositions, accepted>>
config == <<test, forceopen>>
account == <<cash, tradecapital>>
frames == <<df, returned>>

\* lines 101-104: one pass of the wait loop
AwaitOpen ==
    /\ phase = "AwaitOpen" /\ ~crashed
    /\ ~marketopen /\ ~test
    /\ marketopen' \in BOOLEAN
    /\ UNCHANGED <<frames, earlysold,
                   phase, crashed, config, eod, account, books, feed,
                   earlylist, broker, lasteval, eodseen, liquidation>>

\* lines 101, 106-109: the wait loop ends, the account is read
StartTrading ==
    /\ phase = "AwaitOpen" /\ ~crashed
    /\ marketopen \/ test
    /\ \E acct \in Accounts :
          /\ cash' = CashOf(acct)
          /\ tradecapital' = TradeCapitalOf(CashOf(acct))
    /\ phase' = Successor(phase)
    /\ UNCHANGED <<frames, earlysold,
                   crashed, config, marketopen, eod, books, feed, earlylist,
                   broker, lasteval, eodseen, liquidation>>

\* lines 111-136: the loop condition holds; clock refresh, batch read,
\* inboundcount
BeginTick ==
    /\ phase = "ActiveTrading" /\ ~crashed /\ idx = 0
    /\ ActiveLoopCondition
    /\ \E clock \in ClockReadings :
          /\ marketopen' = clock.open
          /\ eod' = clock.late
    /\ eodseen' = (eodseen \/ (eod' /\ ~test))
    /\ \E batch \in Batches :
          /\ inboundactions' = batch
          /\ inboundcount' = CountPending(batch, 1)
    /\ idx' = 1
    /\ UNCHANGED <<frames, earlysold,
                   phase, crashed, config, account, books, ordercount,
                   earlylist, broker, lasteval, liquidation>>

\* lines 138-343: one iteration of the for loop over the batch; it ends
\* with the read of line 340
ProcessStock ==
    /\ phase = "ActiveTrading" /\ ~crashed
    /\ idx \in 1..Len(inboundactions)
    /\ LET a == inboundactions[idx]
           stock == a.stock
           discount == BandwagonDiscount(InboundCountAtEvaluation)
           count == OrderCountAtGate
       IN  IF ~Eligible(stock)
           THEN /\ ordercount' = GetOrderCount
                /\ idx' = idx + 1
                /\ lasteval' = [stock |-> stock, outcome |-> "ineligible"]
                /\ UNCHANGED <<crashed, books, broker>>
           ELSE IF SizingRaises(a, count)
           THEN /\ crashed' = TRUE
                /\ ordercount' = IF stock \in DOMAIN closeprices
                                 THEN count ELSE ordercount
                /\ lasteval' = [stock |-> stock, outcome |-> "raised"]
                /\ UNCHANGED <<idx, books, broker>>
           ELSE IF count >= MaxOrders
           THEN /\ ordercount' = GetOrderCount
                /\ idx' = idx + 1
                /\ lasteval' = [stock |-> stock, outcome |-> "gated"]
                /\ UNCHANGED <<crashed, books, broker>>
           ELSE LET z == Sizing(a, cash, tradecapital, discount) IN
                IF z.ordershares > 0
                THEN \E ok \in BOOLEAN :
                       IF ok
                       THEN /\ orders' = orders \cup {stock}
                            /\ accepted' = [accepted EXCEPT
                                              ![stock] = Saturate(@)]
                            /\ boughtlist' = BoughtAfterSuccess(stock)
                            /\ status' = [status EXCEPT ![stock] =
                                 StatusRecord(a, z, "buy", a.strategyfamily)]
                            /\ ordercount' = GetOrderCount
                            /\ idx' = idx + 1
                            /\ lasteval' = [stock |-> stock,
                                            outcome |-> "bought"]
                            /\ UNCHANGED <<crashed, skiplist, positions,
                                           otherpositions>>
                       ELSE /\ skiplist' = SkipAfterFailure(stock)
                            /\ status' = [status EXCEPT ![stock] =
                                 StatusRecord(a, z, "skip", z.skipreason \o
                                   " - buy order failed; eligible for retry.")]
                            /\ ordercount' = GetOrderCount
                            /\ idx' = idx + 1
                            /\ lasteval' = [stock |-> stock,
                                            outcome |-> "failed"]
                            /\ UNCHANGED <<crashed, boughtlist, broker>>
                ELSE /\ skiplist' = SkipAfterSkip(stock)
                     /\ status' = [status EXCEPT ![stock] =
                          StatusRecord(a, z, "skip",
                            SkipReason(z, stock, count) \o
                              "; not eligible for retry.")]
                     /\ ordercount' = GetOrderCount
                     /\ idx' = idx + 1
                     /\ lasteval' = [stock |-> stock, outcome |-> "skipped"]
                     /\ UNCHANGED <<crashed, boughtlist, broker>>
    /\ UNCHANGED <<frames, earlysold,
                   phase, config, marketopen, eod, account, inboundactions,
                   inboundcount, earlylist, eodseen, liquidation>>

\* lines 345-385: the for loop is over; the snapshot and status files are
\* rewritten (a failed write is caught) and the tick waits for the minute.
\* The batch and its count are dead until line 120 reads the next one, so
\* they are cleared here.
EndTick ==
    /\ phase = "ActiveTrading" /\ ~crashed
    /\ idx = Len(inboundactions) + 1
    /\ idx' = 0
    /\ inboundactions' = <<>>
    /\ inboundcount' = 0
    /\ lasteval' = NoEval
    /\ UNCHANGED <<frames, earlysold,
                   phase, crashed, config, marketopen, eod, account, books,
                   ordercount, earlylist, broker, eodseen, liquidation>>

\* lines 111, 387-406: the loop condition fails; the sell-early list is
\* loaded (a failure is caught and leaves earlylist unassigned) and the
\* 15-minute check is made
LeaveActive ==
    /\ phase = "ActiveTrading" /\ ~crashed /\ idx = 0
    /\ ~ActiveLoopCondition
    /\ \/ \E rows \in EarlyLists : earlylist' = Bound(rows)
       \/ UNCHANGED earlylist
    /\ \E late \in BOOLEAN : eod' = (forceopen \/ late)
    /\ phase' = Successor(phase)
    /\ UNCHANGED <<frames, earlysold,
                   crashed, config, marketopen, account, books, feed,
                   broker, lasteval, eodseen, liquidation>>

FlaggedAll(symbols) == symbols

\* lines 412 and 420: stock.symbol in earlylist
FlaggedEarly(symbols) == symbols \cap earlylist.rows

\* lines 409-434: one pass of the wind-down loop; a cancel_order or
\* close_position that raises is caught (416, 424) and the loop goes on
WindDown ==
    /\ phase = "EarlyWindDown" /\ ~crashed
    /\ ~eod
    /\ IF earlylist = Unbound
       THEN IF orders # {} \/ positions # {} \/ otherpositions > 0
            THEN /\ crashed' = TRUE
                 /\ UNCHANGED <<eod, orders, positions, earlysold>>
            ELSE /\ \E late \in BOOLEAN : eod' = (forceopen \/ late)
                 /\ earlysold' = NoPass
                 /\ UNCHANGED <<crashed, orders, positions>>
       ELSE /\ \E cancelled \in SUBSET FlaggedEarly(orders),
                  closed \in SUBSET FlaggedEarly(positions) :
                  /\ orders' = orders \ cancelled
                  /\ positions' = positions \ closed
                  /\ earlysold' = [cancelled |-> cancelled, closed |-> closed]
            /\ \E late \in BOOLEAN : eod' = (forceopen \/ late)
            /\ UNCHANGED crashed
    /\ UNCHANGED <<frames, phase, config, marketopen, account, books, feed,
                   earlylist, otherpositions, accepted, lasteval, eodseen,
                   liquidation>>

\* lines 409, 437-438: the wind-down loop ends
EnterLiquidation ==
    /\ phase = "EarlyWindDown" /\ ~crashed
    /\ eod
    /\ phase' = Successor(phase)
    /\ UNCHANGED <<frames, earlysold,
                   crashed, config, marketopen, eod, account, books, feed,
                   earlylist, broker, lasteval, eodseen, liquidation>>

\* lines 439-443: cancel_all_orders, then close_all_positions, in one try
FinalLiquidation ==
    /\ phase = "FinalLiquidation" /\ ~crashed
    /\ \/ /\ liquidation' = "cancelled and closed"
          /\ orders' = {} /\ positions' = {} /\ otherpositions' = 0
          /\ phase' = Successor(phase) /\ UNCHANGED crashed
       \/ /\ liquidation' = "cancelled, close failed"
          /\ orders' = {} /\ UNCHANGED <<positions, otherpositions>>
          /\ IF LiquidationCaught
             THEN phase' = Successor(phase) /\ UNCHANGED crashed
             ELSE crashed' = TRUE /\ UNCHANGED phase
       \/ /\ liquidation' = "cancel failed"
          /\ UNCHANGED <<orders, positions, otherpositions>>
          /\ IF LiquidationCaught
             THEN phase' = Successor(phase) /\ UNCHANGED crashed
             ELSE crashed' = TRUE /\ UNCHANGED phase
    /\ UNCHANGED <<frames, earlysold,
                   config, marketopen, eod, account, books, feed, earlylist,
                   accepted, lasteval, eodseen>>

\* an exception of a clock, account, database or file call made outside any
\* try block at the head of a loop pass: IsOpen (103, 112), GetAccount
\* (107), IsEOD (113, 401, 404, 431), open(actionpath) (119), GetOrders
\* (411), GetPositions (419). GetOrderCount (161, 340) is taken to return.
CollaboratorFailure ==
    /\ phase \in {"AwaitOpen", "ActiveTrading", "EarlyWindDown"} /\ ~crashed
    /\ idx = 0
    /\ crashed' = TRUE
    /\ UNCHANGED <<frames, earlysold,
                   phase, config, marketopen, eod, account, books, feed,
                   earlylist, broker, lasteval, eodseen, liquidation>>

\* broker events are interleaved with the script between ticks, between
\* wind-down passes and between the evaluations of the core tickers; the
\* crowd tickers of a surge batch are evaluated back to back
BrokerActive ==
    /\ phase \in {"ActiveTrading", "EarlyWindDown"} /\ ~crashed
    /\ idx \in 1..Len(inboundactions) =>
          inboundactions[idx].stock \in Range(CoreTickers)

\* the broker fills the entry leg of an open bracket order
BrokerFill(t) ==
    /\ BrokerActive
    /\ t \in orders
    /\ orders' = orders \ {t}
    /\ positions' = positions \cup {t}
    /\ UNCHANGED <<frames, earlysold,
                   phase, crashed, config, marketopen, eod, account, books,
                   feed, earlylist, otherpositions, accepted, lasteval,
                   eodseen, liquidation>>

\* a take-profit or stop-loss leg closes a held position
BrokerExit(t) ==
    /\ BrokerActive
    /\ t \in positions
    /\ positions' = positions \ {t}
    /\ UNCHANGED <<frames, earlysold,
                   phase, crashed, config, marketopen, eod, account, books,
                   feed, earlylist, orders, otherpositions, accepted,
                   lasteval, eodseen, liquidation>>

Next ==
    \/ AwaitOpen
    \/ StartTrading
    \/ BeginTick
    \/ ProcessStock
    \/ EndTick
    \/ LeaveActive
    \/ WindDown
    \/ EnterLiquidation
    \/ FinalLiquidation
    \/ CollaboratorFailure
    \/ \E t \in Tickers : BrokerFill(t)
    \/ \E t \in Tickers : BrokerExit(t)

Spec == Init /\ [][Next]_vars


\* every call of the final block returns or raises, so the block completes
LiveSpec == Spec /\ WF_vars(FinalLiquidation)

(***************************************************************************)
(* The signal classifier ouro_lib.calcind (ouro_lib.py 92-257).            *)
(*                                                                         *)
(* A bar carries, as sig, the value each TA-Lib function yields for it     *)
(* when its lookback window is inside the series. TA-Lib returns NaN for   *)
(* the first lookback positions of whatever series it is given. A value    *)
(* is a record: NaN compares False with every number.                      *)
(***************************************************************************)
NaN == [defined |-> FALSE, v |-> 0]
Val(k) == [defined |-> TRUE, v |-> k]

Ge(x, k) == x.defined /\ x.v >= k
Le(x, k) == x.defined /\ x.v <= k
Gt(x, k) == x.defined /\ x.v > k
Lt(x, k) == x.defined /\ x.v < k
Eq(x, k) == x.defined /\ x.v = k
Minus(x, y) == IF x.defined /\ y.defined THEN Val(x.v - y.v) ELSE NaN

\* rows at the head of a series for which the longest lookback of the
\* columns of line 240 (MACDHIST) is not filled (bound; 33 in TA-Lib)
Warmup == 1

\* bars in a frame handed to calcind (bound)
MaxBars == 3

\* calls a caller makes on the frame it holds (bound)
MaxCalls == 2

\* a bar on which every indicator is in its neutral zone
Quiet ==
    [AROONUP |-> Val(50), AROONDN |-> Val(50), BOP |-> Val(0),
     CCI14 |-> Val(0), CMO14 |-> Val(0), MACDHIST |-> Val(0),
     PPO12 |-> Val(1), RSI14 |-> Val(50), STOCHK |-> Val(50),
     STOCHD |-> Val(50), STOCHRSIK |-> Val(50), STOCHRSID |-> Val(50),
     TRIX30 |-> Val(0), ADOSC |-> Val(0)]

\* a bar on which every indicator is high, and one on which every one is low
Hot ==
    [AROONUP |-> Val(100), AROONDN |-> Val(0), BOP |-> Val(1),
     CCI14 |-> Val(150), CMO14 |-> Val(60), MACDHIST |-> Val(2),
     PPO12 |-> Val(2), RSI14 |-> Val(80), STOCHK |-> Val(90),
     STOCHD |-> Val(85), STOCHRSIK |-> Val(100), STOCHRSID |-> Val(90),
     TRIX30 |-> Val(1), ADOSC |-> Val(1)]
Cold ==
    [AROONUP |-> Val(0), AROONDN |-> Val(100), BOP |-> Val(-1),
     CCI14 |-> Val(-150), CMO14 |-> Val(-60), MACDHIST |-> Val(-2),
     PPO12 |-> Val(-2), RSI14 |-> Val(20), STOCHK |-> Val(10),
     STOCHD |-> Val(15), STOCHRSIK |-> Val(0), STOCHRSID |-> Val(10),
     TRIX30 |-> Val(-1), ADOSC |-> Val(-1)]

\* pairs (%K, %D) around the 20 and 80 lines
KDPairs ==
    { <<20, 20>>, <<20, 21>>, <<21, 20>>, <<80, 80>>, <<80, 79>>, <<79, 80>> }

\* the bars of a frame differ in one indicator family, around its
\* thresholds, or are all-high and all-low bars
Axes ==
    { {Quiet, Hot, Cold},
      {Quiet} \cup { [Quiet EXCEPT !.AROONDN = Val(p[1]), !.AROONUP = Val(p[2])] :
                       p \in { <<75, 50>>, <<74, 50>>, <<50, 74>>, <<50, 75>> } },
      { [Quiet EXCEPT !.BOP = Val(k)] : k \in {-1, 0, 1} },
      { [Quiet EXCEPT !.CCI14 = Val(k)] : k \in {-100, -99, 0, 99, 100} },
      { [Quiet EXCEPT !.CMO14 = Val(k)] : k \in {-51, -50, 0, 50, 51} },
      { [Quiet EXCEPT !.MACDHIST = Val(k)] : k \in {-2, -1, 0, 1, 2} },
      { [Quiet EXCEPT !.PPO12 = Val(k)] : k \in {-1, 0, 1} },
      { [Quiet EXCEPT !.RSI14 = Val(k)] : k \in {30, 31, 50, 69, 70} },
      {Quiet} \cup { [Quiet EXCEPT !.STOCHK = Val(p[1]), !.STOCHD = Val(p[2])] :
                       p \in KDPairs },
      {Quiet} \cup { [Quiet EXCEPT !.STOCHRSIK = Val(p[1]),
                                   !.STOCHRSID = Val(p[2])] : p \in KDPairs },
      { [Quiet EXCEPT !.TRIX30 = x] : x \in {Val(-1), Val(0), Val(1), NaN} },
      { [Quiet EXCEPT !.ADOSC = Val(k)] : k \in {-1, 0, 1} } }

\* the frames GetOHLCV may hand over: rows in ascending time order with a
\* RangeIndex label
Frames ==
    UNION { { [i \in 1..n |-> [label |-> i, sig |-> s[i]]] :
                s \in [1..n -> axis] } :
            n \in 0..MaxBars, axis \in Axes }

\* lines 109-135: the indicator columns of position i of frame f
Indicators(f, i) ==
    IF i > Warmup THEN f[i].sig
    ELSE [c \in DOMAIN Quiet |-> IF c = "BOP" THEN f[i].sig[c] ELSE NaN]

\* lines 167-170
AROONVOTE(ind) ==
    LET AROONOSC == Minus(ind.AROONDN, ind.AROONUP)
    IN  IF Le(AROONOSC, -25) THEN -1 ELSE IF Ge(AROONOSC, 25) THEN 1 ELSE 0

\* lines 175-177
BOPVOTE(ind) == IF Lt(ind.BOP, 0) THEN -1 ELSE IF Gt(ind.BOP, 0) THEN 1 ELSE 0

CCIVOTEContrarian(ind) ==
    IF Le(ind.CCI14, -100) THEN 1 ELSE IF Ge(ind.CCI14, 100) THEN -1 ELSE 0

\* lines 180-182
CCIVOTE(ind) ==
    IF Le(ind.CCI14, -100) THEN -1 ELSE IF Ge(ind.CCI14, 100) THEN 1 ELSE 0

\* lines 185-187
CMOVOTE(ind) ==
    IF Gt(ind.CMO14, 50) THEN -1 ELSE IF Lt(ind.CMO14, -50) THEN 1 ELSE 0

\* lines 190-193; shifted is MACDHIST.shift(periods=-1): the value of the
\* next position, NaN at the last one
MACDVOTE(ind, shifted) ==
    IF Eq(ind.MACDHIST, 0) THEN 0
    ELSE IF Lt(ind.MACDHIST, 0) /\ shifted.defined /\ ind.MACDHIST.defined
            /\ shifted.v > ind.MACDHIST.v THEN -1
    ELSE IF Gt(ind.MACDHIST, 0) /\ shifted.defined /\ ind.MACDHIST.defined
            /\ shifted.v < ind.MACDHIST.v THEN 1
    ELSE 0

\* lines 202-204: the two assignments are commented out
PPOVOTE(ind) == 0

\* lines 210-212
RSIVOTE(ind) ==
    IF Le(ind.RSI14, 30) THEN 1 ELSE IF Ge(ind.RSI14, 70) THEN -1 ELSE 0

STOCHVOTEEither(ind) ==
    IF Le(ind.STOCHK, 20) \/ Le(ind.STOCHD, 20) THEN 1
    ELSE IF Ge(ind.STOCHK, 80) \/ Ge(ind.STOCHD, 80) THEN -1 ELSE 0

\* lines 215-217
STOCHVOTE(ind) ==
    IF Le(ind.STOCHK, 20) /\ Le(ind.STOCHD, 20) THEN 1
    ELSE IF Ge(ind.STOCHK, 80) /\ Ge(ind.STOCHD, 80) THEN -1 ELSE 0

\* lines 220-222
STOCHRSIVOTE(ind) ==
    IF Le(ind.STOCHRSIK, 20) /\ Le(ind.STOCHRSID, 20) THEN 1
    ELSE IF Ge(ind.STOCHRSIK, 80) /\ Ge(ind.STOCHRSID, 80) THEN -1 ELSE 0

\* lines 225-227
TRIXVOTE(ind) ==
    IF Lt(ind.TRIX30, 0) THEN -1 ELSE IF Gt(ind.TRIX30, 0) THEN 1 ELSE 0

\* lines 233-235
ADOSCVOTE(ind) ==
    IF Lt(ind.ADOSC, 0) THEN -1 ELSE IF Gt(ind.ADOSC, 0) THEN 1 ELSE 0

\* the vote columns of a row, in the order lines 244-254 read them
Votes(ind, shifted) ==
    <<AROONVOTE(ind), BOPVOTE(ind), CCIVOTE(ind), CMOVOTE(ind),
      MACDVOTE(ind, shifted), PPOVOTE(ind), RSIVOTE(ind), STOCHVOTE(ind),
      STOCHRSIVOTE(ind), TRIXVOTE(ind), ADOSCVOTE(ind)>>

\* the characters from code point 65 on
Alphabet == <<"A", "B", "C", "D">>

ChrNext(n) == Alphabet[n - 63]

\* chr(n) for the code points calcind passes
Chr(n) == Alphabet[n - 64]

\* lines 244-255: STRATEGY_ID, a string, as the sequence of its characters
STRATEGY_ID(votes) == [i \in DOMAIN votes |-> Chr(66 + votes[i])]

\* line 240: the columns dropna looks at
DropnaSubset ==
    {"AROONUP", "AROONDN", "BOP", "CCI14", "CMO14", "MACDHIST", "PPO12",
     "RSI14", "STOCHK", "STOCHD", "STOCHRSIK", "STOCHRSID", "ADOSC"}

HasNaN(row) == \E c \in DropnaSubset : ~row.ind[c].defined

\* lines 104-255 on a non-empty frame f: the columns are computed for
\* every position, the rows with a NaN are dropped, the rows left get
\* their STRATEGY_ID
Classified(f) ==
    LET computed ==
          [i \in 1..Len(f) |->
             LET ind == Indicators(f, i)
                 shifted == IF i < Len(f) THEN Indicators(f, i + 1).MACDHIST
                            ELSE NaN
                 votes == Votes(ind, shifted)
             IN  [label |-> f[i].label, sig |-> f[i].sig, ind |-> ind,
                  shifted |-> shifted, votes |-> votes,
                  STRATEGY_ID |-> STRATEGY_ID(votes)]]
    IN  SelectSeq(computed, LAMBDA row : ~HasNaN(row))

\* what a call returns: the frame object (line 257), or None when the
\* frame was empty (line 104 false, no return statement)
ReturnedNone == [frame |-> FALSE, rows |-> <<>>]
ReturnedFrame(rows) == [frame |-> TRUE, rows |-> rows]

\* lines 109-255 write the columns into df and dropna(inplace=True) drops
\* the rows from it: the caller's frame is the one returned
ArgumentAfterCall(f) == Classified(f)

\* the variables of the trading session
session == <<phase, crashed, test, forceopen, marketopen, eod, cash,
             tradecapital, boughtlist, skiplist, status, inboundactions,
             inboundcount, idx, ordercount, earlylist, orders, positions,
             otherpositions, accepted, lasteval, eodseen, liquidation,
             earlysold>>

\* a caller holds a frame of bars; no trading session runs
ClassifierInit ==
    /\ df \in Frames
    /\ returned = <<>>
    /\ phase = "AwaitOpen" /\ crashed = FALSE
    /\ test = FALSE /\ forceopen = FALSE
    /\ marketopen = FALSE /\ eod = FALSE
    /\ cash = Unassigned /\ tradecapital = Unassigned
    /\ boughtlist = [t \in Tickers |-> 0]
    /\ skiplist = [t \in Tickers |-> 0]
    /\ status = [t \in Tickers |-> NoRecord]
    /\ inboundactions = <<>> /\ inboundcount = 0 /\ idx = 0
    /\ ordercount = 0
    /\ earlylist = Unbound
    /\ orders = {} /\ positions = {} /\ otherpositions = 0
    /\ accepted = [t \in Tickers |-> 0]
    /\ lasteval = NoEval /\ eodseen = FALSE /\ liquidation = "none"
    /\ earlysold = NoPass

\* calcind(df), lines 92-257
Calcind ==
    /\ Len(returned) < MaxCalls
    /\ IF df = <<>>
       THEN /\ returned' = Append(returned, ReturnedNone)
            /\ UNCHANGED df
       ELSE /\ df' = ArgumentAfterCall(df)
            /\ returned' = Append(returned, ReturnedFrame(Classified(df)))
    /\ UNCHANGED session

ClassifierNext == Calcind

ClassifierSpec == ClassifierInit /\ [][ClassifierNext]_vars

(***************************************************************************)
(* Vocabulary of the properties.                                           *)
(***************************************************************************)
PhaseRank(p) ==
    CASE p = "AwaitOpen" -> 1
      [] p = "ActiveTrading" -> 2
      [] p = "EarlyWindDown" -> 3
      [] p = "FinalLiquidation" -> 4
      [] OTHER -> 5

RetrySuffix == " - buy order failed; eligible for retry."
TerminalSuffix == "; not eligible for retry."

IsRetryRecord(r) ==
    /\ r.Decision = "skip"
    /\ r.Reason = "Unknown" \o RetrySuffix

\* the for loop stands at the batch entry of ticker t and this step runs
\* its iteration
Visits(t) ==
    /\ phase = "ActiveTrading" /\ ~crashed
    /\ idx \in 1..Len(inboundactions)
    /\ inboundactions[idx].stock = t
    /\ (idx' = idx + 1 \/ crashed')

\* the outcomes in which the block of line 149 was entered
Evaluated == {"bought", "failed", "skipped", "gated", "raised"}

\* the outcomes in which submit_order was called
Submitted == {"bought", "failed"}

(***************************************************************************)
(* C1: in every reachable session state no ticker is in both boughtlist    *)
(* and skiplist.                                                           *)
(***************************************************************************)
C1_BoughtSkipDisjoint ==
    \A t \in Tickers : ~(boughtlist[t] > 0 /\ skiplist[t] > 0)

C1_Witness ==
    /\ boughtlist["T2"] > 0
    /\ skiplist["T1"] > 0
    /\ lasteval = [stock |-> "T1", outcome |-> "ineligible"]

(***************************************************************************)
(* C2: when the sizing block decides to buy and submit_order fails, the    *)
(* ticker is afterwards in neither list and its status record is a skip    *)
(* marked eligible for retry; and whenever the for loop reaches a ticker   *)
(* whose latest record is such a retry record, it evaluates it again.      *)
(***************************************************************************)
C2_FailedSubmissionLeavesRetryEligible ==
    [][ /\ (lasteval'.outcome = "failed" /\ lasteval' # lasteval) =>
              /\ boughtlist'[lasteval'.stock] = 0
              /\ skiplist'[lasteval'.stock] = 0
              /\ IsRetryRecord(status'[lasteval'.stock])
        /\ \A t \in Tickers :
              (IsRetryRecord(status[t]) /\ Visits(t)) =>
                  lasteval'.outcome \in Evaluated ]_vars

C2_Witness ==
    /\ lasteval.outcome = "failed"
    /\ IsRetryRecord(status[lasteval.stock])
    /\ boughtlist[lasteval.stock] = 0
    /\ skiplist[lasteval.stock] = 0

(***************************************************************************)
(* C3: once a ticker is in skiplist it stays there with exactly one        *)
(* occurrence, the for loop never evaluates it again and no order is       *)
(* submitted for it, whatever the later batches and position counts are.   *)
(***************************************************************************)
C3_SkipIsTerminal ==
    [][ \A t \in Tickers :
          /\ skiplist'[t] <= 1
          /\ skiplist[t] > 0 =>
                /\ skiplist'[t] = skiplist[t]
                /\ accepted'[t] = accepted[t]
                /\ Visits(t) => lasteval'.outcome = "ineligible" ]_vars

C3_Witness ==
    /\ lasteval.outcome = "ineligible"
    /\ skiplist[lasteval.stock] = 1
    /\ GetOrderCount < MaxOrders

(***************************************************************************)
(* C4: a successful submit_order puts the ticker in boughtlist; the broker *)
(* accepts at most one bracket order per ticker in a session, and a ticker *)
(* in boughtlist is never submitted again however often the batches name   *)
(* it.                                                                     *)
(***************************************************************************)
C4_AtMostOneOrderPerTicker ==
    [][ \A t \in Tickers :
          /\ accepted'[t] <= 1
          /\ accepted'[t] > accepted[t] => boughtlist'[t] > 0
          /\ (boughtlist[t] > 0 /\ Visits(t)) =>
                lasteval'.outcome \notin Submitted ]_vars

C4_Witness ==
    /\ lasteval.outcome = "ineligible"
    /\ boughtlist[lasteval.stock] = 1
    /\ accepted[lasteval.stock] = 1

(***************************************************************************)
(* C5: the phase only moves forward along AwaitOpen, ActiveTrading,        *)
(* EarlyWindDown, FinalLiquidation, Done: every step keeps the phase or    *)
(* moves it to the next one, in every run mode and for every clock.        *)
(***************************************************************************)
C5_PhaseMonotonic ==
    [][ \/ PhaseRank(phase') = PhaseRank(phase)
        \/ PhaseRank(phase') = PhaseRank(phase) + 1 ]_vars

C5_Witness ==
    /\ phase = "Done"
    /\ accepted["T1"] = 1


(***************************************************************************)
(* C6: with the test toggle off, once IsEOD() of the trading loop has      *)
(* returned True (75 or fewer minutes to the close), submit_order is not   *)
(* called for the rest of the session.                                     *)
(***************************************************************************)
C6_NoSubmissionAfterEodReported ==
    ~(~test /\ eodseen /\ lasteval.outcome \in Submitted)

(***************************************************************************)
(* C7: whenever the position count read for a ticker's evaluation is 10    *)
(* or more, the decision recorded for the ticker is a skip and no order    *)
(* is submitted for it.                                                    *)
(***************************************************************************)
C7_FullBookMeansSkip ==
    lasteval.outcome = "gated" =>
        /\ status[lasteval.stock].Decision = "skip"
        /\ accepted[lasteval.stock] = 0

(***************************************************************************)
(* C8: the spec's worked example: price 100, recent high 105, recent low   *)
(* 95, yesterday's close 98, family Momentum with average return 0.02,     *)
(* cash 50000, trade capital 5000, no bandwagon discount, 3 positions.     *)
(***************************************************************************)
WorkedExample ==
    /\ phase = "ActiveTrading" /\ idx = 2
    /\ inboundactions = <<Gapped("T1")>>
    /\ inboundcount < BandwagonCount
    /\ ordercount = 3
    /\ cash = Num(50000) /\ tradecapital = Num(5000)
    /\ lasteval = [stock |-> "T1", outcome |-> "skipped"]

WorkedSizing ==
    Sizing(Gapped("T1"), cash, tradecapital, BandwagonDiscount(inboundcount))

\* what the example has in common in the claim and in the code
WorkedCommon(z, r) ==
    /\ z.basefloor = Rat(992, 10)
    /\ z.ceilingprice = Num(102) /\ ~z.clamped
    /\ z.initialshares = 50
    /\ ~z.adjusted
    /\ z.traderiskpct = Rat(8, 1000)
    /\ z.buylimit = Rat(1001, 10)
    /\ z.ordershares = 0
    /\ r.Decision = "skip" /\ r.OrderShares = 0
    /\ r.Reason = "The potential return has already been met today."
                    \o TerminalSuffix
    /\ r.FloorPrice = Rat(992, 10) /\ r.CeilingPrice = Num(102)
    /\ r.BuyLimit = Rat(1001, 10) /\ r.TradeRiskPct = Rat(8, 1000)
    /\ skiplist["T1"] = 1

\* the claim as stated: no stop-loss rejection, 40 at risk
C8_WorkedExampleAsStated ==
    WorkedExample =>
        /\ WorkedCommon(WorkedSizing, status["T1"])
        /\ ~WorkedSizing.stophit
        /\ WorkedSizing.traderiskamt = Num(40)
        /\ status["T1"].TradeRiskAmt = Num(40)

\* as amended: the floor 99.2 is above the recent low 95, so the stop-loss
\* rejection fires, the share count drops from 50 to 0 before the risk is
\* computed, and the amount at risk is 0
C8_WorkedExampleAmended ==
    WorkedExample =>
        /\ WorkedCommon(WorkedSizing, status["T1"])
        /\ WorkedSizing.stophit
        /\ WorkedSizing.traderiskamt = Num(0)
        /\ status["T1"].TradeRiskAmt = Num(0)

C8_Witness == WorkedExample

(***************************************************************************)
(* C9: for every bracket order submitted, the amount at risk               *)
(* (price - floorprice) * shares is at most cash * maxriskratio times the  *)
(* bandwagon discount of the tick.                                         *)
(***************************************************************************)
C9_RiskWithinMaxRisk ==
    lasteval.outcome = "bought" =>
        RLe(status[lasteval.stock].TradeRiskAmt,
            MaxRiskAmt(cash, BandwagonDiscount(inboundcount)))

(***************************************************************************)
(* C10: once the final liquidation block is entered the session reaches    *)
(* Done: a failure of cancel_all_orders or of close_all_positions is       *)
(* caught and never ends the process before Done.                          *)
(***************************************************************************)
C10_LiquidationReachesDone ==
    /\ [](phase = "FinalLiquidation" => ~crashed)
    /\ (phase = "FinalLiquidation") ~> (phase = "Done")

C10_Witness ==
    /\ phase = "Done"
    /\ liquidation = "cancel failed"
    /\ orders # {}


\* the batch entry the latest for-loop iteration evaluated, and the locals
\* its sizing block computed
LastAction == inboundactions[idx - 1]
LastSizing ==
    Sizing(LastAction, cash, tradecapital, BandwagonDiscount(inboundcount))

(***************************************************************************)
(* C11: an error raised while one ticker of the batch is processed (no     *)
(* yesterday's close for it, a strategy family missing from the catalog,   *)
(* a failed submission) does not end the session.                          *)
(***************************************************************************)
C11_TickerErrorsAreCaught ==
    (phase = "ActiveTrading" /\ lasteval.outcome \in {"raised", "failed"})
        => ~crashed

(***************************************************************************)
(* C12: with the marketopen toggle on and the test toggle off the trading  *)
(* loop makes one pass: when a tick ends, the loop condition of line 111   *)
(* is false, whatever the clock reported in that tick.                     *)
(***************************************************************************)
C12_ForcedOpenMakesOnePass ==
    [][ (forceopen /\ ~test /\ phase = "ActiveTrading"
           /\ idx > 0 /\ idx' = 0) => ~ActiveLoopCondition' ]_vars

\* the specification's wording of the reasons: the first rejection that
\* fired
FirstTriggeredReason(z) ==
    IF z.stophit THEN "Proposed stop-loss price already hit today"
    ELSE IF z.met THEN "The potential return has already been met today."
    ELSE IF z.bad THEN "Risk outweighs reward"
    ELSE "Stock is too expensive or unable to buy shares."

\* the last rejection that fired
LastTriggeredReason(z) ==
    IF z.bad THEN "Risk outweighs reward"
    ELSE IF z.met THEN "The potential return has already been met today."
    ELSE IF z.stophit THEN "Proposed stop-loss price already hit today"
    ELSE "Stock is too expensive or unable to buy shares."

(***************************************************************************)
(* C18 as stated: the reason recorded with a skip is that of the first     *)
(* rejection that fired in the evaluation, and the default reason when     *)
(* none fired.                                                             *)
(***************************************************************************)
C18_FirstRejectionIsRecorded ==
    lasteval.outcome = "skipped" =>
        status[lasteval.stock].Reason =
            FirstTriggeredReason(LastSizing) \o TerminalSuffix

(***************************************************************************)
(* C18 as amended: the reason recorded with a skip is that of the last     *)
(* rejection that fired in the evaluation (each rejection overwrites the   *)
(* reason of the one before), and the default reason when none fired.      *)
(***************************************************************************)
C18_LastRejectionIsRecorded ==
    lasteval.outcome = "skipped" =>
        status[lasteval.stock].Reason =
            LastTriggeredReason(LastSizing) \o TerminalSuffix

C18_Witness ==
    /\ lasteval.outcome = "skipped"
    /\ LastSizing.met /\ LastSizing.bad
    /\ status[lasteval.stock].Reason = "Risk outweighs reward" \o TerminalSuffix

(***************************************************************************)
(* C19: after an evaluation made with 10 or more positions the ticker's    *)
(* status record is a skip with reason 'Too many existing positions' and   *)
(* with floor price, ceiling price and buy limit 0.                        *)
(***************************************************************************)
C19_FullBookRecord ==
    lasteval.outcome = "gated" =>
        /\ status[lasteval.stock].Decision = "skip"
        /\ status[lasteval.stock].Reason =
              "Too many existing positions" \o TerminalSuffix
        /\ status[lasteval.stock].FloorPrice = Num(0)
        /\ status[lasteval.stock].CeilingPrice = Num(0)
        /\ status[lasteval.stock].BuyLimit = Num(0)

\* the rejection in the specification's words: the family is not
\* Candlestick and
\* price * (1 - 0.4 * average family return) is above the recent low
StopLossCase(a) ==
    /\ a.strategyfamily \in DOMAIN familyreturns
    /\ a.strategyfamily # "Candlestick"
    /\ RGt(RMul(a.price, RSub(Num(1), RMul(Rat(4, 10),
                                           familyreturns[a.strategyfamily]))),
           a.recentlow)

VoteLetter(v) == CASE v = -1 -> "A" [] v = 0 -> "B" [] v = 1 -> "C"

\* the spec's decode: the votes a strategy ID stands for
Decode(id) ==
    [i \in DOMAIN id |->
        CASE id[i] = "A" -> -1 [] id[i] = "B" -> 0 [] id[i] = "C" -> 1]

\* the rows of every frame calcind has returned
ClassifiedRows ==
    UNION { {returned[k].rows[j] : j \in 1..Len(returned[k].rows)} :
            k \in 1..Len(returned) }

(***************************************************************************)
(* C13: the strategy ID of a vote vector has 11 characters from A, B, C,   *)
(* character i is A for vote -1, B for 0, C for +1, in the order Aroon,    *)
(* BOP, CCI, CMO, MACD, PPO, RSI, Stochastic, Stochastic-RSI, TRIX,        *)
(* Chaikin A/D, and decoding it gives the votes back: for every vote at    *)
(* every position, and for every row calcind classifies.                   *)
(***************************************************************************)
C13_StrategyIdEncodesVotes ==
    /\ \A i \in 1..11 : \A x \in {-1, 0, 1} :
          LET v == [[k \in 1..11 |-> 0] EXCEPT ![i] = x]
              id == STRATEGY_ID(v)
          IN  /\ Len(id) = 11
              /\ \A k \in 1..11 : id[k] = VoteLetter(v[k])
              /\ Decode(id) = v
    /\ \A row \in ClassifiedRows :
          LET id == row.STRATEGY_ID
          IN  /\ Len(id) = 11
              /\ \A k \in 1..11 : id[k] = VoteLetter(row.votes[k])
              /\ Decode(id) = row.votes
              /\ id[1] = VoteLetter(AROONVOTE(row.ind))
              /\ id[2] = VoteLetter(BOPVOTE(row.ind))
              /\ id[3] = VoteLetter(CCIVOTE(row.ind))
              /\ id[4] = VoteLetter(CMOVOTE(row.ind))
              /\ id[5] = VoteLetter(MACDVOTE(row.ind, row.shifted))
              /\ id[6] = VoteLetter(PPOVOTE(row.ind))
              /\ id[7] = VoteLetter(RSIVOTE(row.ind))
              /\ id[8] = VoteLetter(STOCHVOTE(row.ind))
              /\ id[9] = VoteLetter(STOCHRSIVOTE(row.ind))
              /\ id[10] = VoteLetter(TRIXVOTE(row.ind))
              /\ id[11] = VoteLetter(ADOSCVOTE(row.ind))

C13_Witness ==
    \E row \in ClassifiedRows :
        /\ row.sig = Cold
        /\ row.shifted = Hot.MACDHIST
        /\ row.STRATEGY_ID =
             <<"C", "A", "A", "C", "A", "B", "C", "C", "C", "A", "A">>

(***************************************************************************)
(* C14 as stated: the CCI vote of a classified row is +1 (character C)     *)
(* when CCI14 <= -100, -1 (character A) when CCI14 >= 100, else 0.         *)
(***************************************************************************)
C14_CciVoteAsStated ==
    \A row \in ClassifiedRows :
        /\ row.votes[3] = (IF row.ind.CCI14.v <= -100 THEN 1
                           ELSE IF row.ind.CCI14.v >= 100 THEN -1 ELSE 0)
        /\ row.STRATEGY_ID[3] = VoteLetter(row.votes[3])

(***************************************************************************)
(* C14 as amended: the CCI vote of a classified row is +1 (character C)    *)
(* when CCI14 >= 100, -1 (character A) when CCI14 <= -100, else 0.         *)
(***************************************************************************)
C14_CciVoteFollowsTrend ==
    \A row \in ClassifiedRows :
        /\ row.votes[3] = (IF row.ind.CCI14.v >= 100 THEN 1
                           ELSE IF row.ind.CCI14.v <= -100 THEN -1 ELSE 0)
        /\ row.STRATEGY_ID[3] = VoteLetter(row.votes[3])

C14_Witness ==
    /\ \E row \in ClassifiedRows :
          row.ind.CCI14 = Val(100) /\ row.STRATEGY_ID[3] = "C"
    /\ \E row \in ClassifiedRows :
          row.ind.CCI14 = Val(-100) /\ row.STRATEGY_ID[3] = "A"

(***************************************************************************)
(* C15: the MACD vote of a classified row is +1 exactly when the histogram *)
(* is below 0 on the row and above 0 on the next bar, -1 exactly when it   *)
(* is above 0 on the row and below 0 on the next bar, and 0 otherwise.     *)
(***************************************************************************)
C15_MacdVoteIsZeroCross ==
    \A row \in ClassifiedRows :
        LET h == row.ind.MACDHIST
            n == row.shifted
        IN  row.votes[5] =
              (IF Lt(h, 0) /\ Gt(n, 0) THEN 1
               ELSE IF Gt(h, 0) /\ Lt(n, 0) THEN -1 ELSE 0)

(***************************************************************************)
(* C16: the second of two successive calls of calcind on the frame a       *)
(* caller holds returns what the first call returned.                      *)
(***************************************************************************)
C16_SecondCallReturnsTheSame ==
    Len(returned) >= 2 => returned[2] = returned[1]

(***************************************************************************)
(* C17: on every classified row the votes of Aroon (down - up >= 25 buys,  *)
(* <= -25 sells), BOP (> 0, < 0), CMO (< -50, > 50), RSI (<= 30, >= 70),   *)
(* Stochastic and Stochastic-RSI (%K and %D both <= 20, both >= 80), TRIX  *)
(* (> 0, < 0) and Chaikin A/D (> 0, < 0) follow the threshold table with   *)
(* 0 in every other case, and the PPO vote is 0, character 6 being B.      *)
(***************************************************************************)
C17_VotesFollowThresholdTable ==
    \A row \in ClassifiedRows :
        LET i == row.ind
            osc == i.AROONDN.v - i.AROONUP.v
            v == row.votes
        IN  /\ v[1] = (IF osc >= 25 THEN 1 ELSE IF osc <= -25 THEN -1 ELSE 0)
            /\ v[2] = (IF i.BOP.v > 0 THEN 1 ELSE IF i.BOP.v < 0 THEN -1 ELSE 0)
            /\ v[4] = (IF i.CMO14.v < -50 THEN 1
                       ELSE IF i.CMO14.v > 50 THEN -1 ELSE 0)
            /\ v[6] = 0 /\ row.STRATEGY_ID[6] = "B"
            /\ v[7] = (IF i.RSI14.v <= 30 THEN 1
                       ELSE IF i.RSI14.v >= 70 THEN -1 ELSE 0)
            /\ v[8] = (IF i.STOCHK.v <= 20 /\ i.STOCHD.v <= 20 THEN 1
                       ELSE IF i.STOCHK.v >= 80 /\ i.STOCHD.v >= 80 THEN -1
                       ELSE 0)
            /\ v[9] = (IF i.STOCHRSIK.v <= 20 /\ i.STOCHRSID.v <= 20 THEN 1
                       ELSE IF i.STOCHRSIK.v >= 80 /\ i.STOCHRSID.v >= 80
                       THEN -1 ELSE 0)
            /\ v[10] = (IF i.TRIX30.defined /\ i.TRIX30.v > 0 THEN 1
                        ELSE IF i.TRIX30.defined /\ i.TRIX30.v < 0 THEN -1
                        ELSE 0)
            /\ v[11] = (IF i.ADOSC.v > 0 THEN 1
                        ELSE IF i.ADOSC.v < 0 THEN -1 ELSE 0)

C17_Witness ==
    /\ \E row \in ClassifiedRows :
          /\ row.ind = Cold
          /\ row.votes[1] = 1 /\ row.votes[2] = -1 /\ row.votes[4] = 1
          /\ row.votes[7] = 1 /\ row.votes[8] = 1 /\ row.votes[9] = 1
          /\ row.votes[10] = -1 /\ row.votes[11] = -1
          /\ row.STRATEGY_ID[6] = "B"
    /\ \E row \in ClassifiedRows :
          /\ row.ind = Hot
          /\ row.votes[1] = -1 /\ row.votes[2] = 1 /\ row.votes[4] = -1
          /\ row.votes[7] = -1 /\ row.votes[8] = -1 /\ row.votes[9] = -1
          /\ row.votes[10] = 1 /\ row.votes[11] = 1
          /\ row.STRATEGY_ID[6] = "B"


(***************************************************************************)
(* The counts a tick works with: pending tickers and open positions.       *)
(***************************************************************************)
\* the tickers the for loop has written a record for
Recorded == {"bought", "failed", "skipped"}

C22_PositionCountReadPerTicker ==
    [][(idx > 0 /\ idx' = idx + 1 /\ lasteval'.outcome # "ineligible") =>
          (lasteval'.outcome = "gated" <=>
              otherpositions + Cardinality(positions) >= 10)
      ]_vars

\* every entry of the batch was pending when the tick began; the first was
\* bought in this tick and the book filled up before the second was gated
C22_Witness ==
    /\ idx = 3 /\ inboundcount = Len(inboundactions)
    /\ status[inboundactions[1].stock].Decision = "buy"
    /\ lasteval = [stock |-> inboundactions[2].stock, outcome |-> "gated"]


(***************************************************************************)
(* The end of the session.                                                 *)
(***************************************************************************)
\* C23: the final liquidation attempts both cancel_all_orders and
\* close_all_positions; a failure of the first does not keep the second
\* from being attempted.
C23_BothLiquidationCallsAttempted ==
    phase = "Done" =>
        liquidation \in {"cancelled and closed", "cancelled, close failed"}

\* C24: when the load of the sell-early list has failed, a pass of the
\* wind-down loop still runs without aborting the session, also when the
\* broker reports open orders or held positions.
C24_WindDownSurvivesFailedLoad ==
    [][(earlylist = Unbound /\ WindDown) => ~crashed']_vars

\* C25: a pass of the wind-down loop cancels only orders and closes only
\* positions whose symbol is in the sell-early list and leaves every other
\* order and position alone; while the session winds down no order is
\* submitted and the bought and skip lists do not change.
C25_WindDownTouchesOnlyFlagged ==
    [][phase = "EarlyWindDown" =>
          /\ accepted' = accepted
          /\ boughtlist' = boughtlist /\ skiplist' = skiplist
          /\ WindDown =>
                /\ (orders \ orders') \subseteq earlylist.rows
                /\ (positions \ positions') \subseteq earlylist.rows
                /\ orders' \subseteq orders /\ positions' \subseteq positions
                /\ otherpositions' = otherpositions
      ]_vars

\* a pass that closed a flagged position although the cancel of a flagged
\* order had failed, with the unflagged positions still held
C25_Witness ==
    /\ phase = "EarlyWindDown" /\ ~crashed
    /\ earlylist = Bound({"T1", "T2"})
    /\ earlysold.closed = {"T2"} /\ earlysold.cancelled = {}
    /\ "T1" \in orders
    /\ otherpositions > 0

\* C26: with both toggles off and every collaborator call returning, the
\* session runs on to Done; so a session that stopped short of Done was
\* stopped by a collaborator's error at the head of a loop pass, never in
\* the middle of a tick.
C26_OnlyCollaboratorErrorsStopSession ==
    (~test /\ ~forceopen /\ crashed) => idx = 0

SkipReasons ==
    {"Unknown", "Proposed stop-loss price already hit today",
     "The potential return has already been met today.",
     "Risk outweighs reward",
     "Stock is too expensive or unable to buy shares.",
     "Stock in bought list.", "Too many existing positions"}

\* a skip record whose reason carries the given mark
Marked(r, suffix) ==
    /\ r.Decision = "skip"
    /\ \E reason \in SkipReasons : r.Reason = reason \o suffix

\* C28: the status log holds at most one record per ticker, its latest
\* decision, kept from tick to tick; a ticker is in the bought list iff its
\* record's Decision is 'buy', in the skip list iff its record is a skip
\* marked 'not eligible for retry', and in neither list when its record is
\* marked 'eligible for retry'.
C28_StatusAgreesWithLists ==
    \A t \in Tickers :
        /\ status[t] # NoRecord => status[t].Ticker = t
        /\ boughtlist[t] > 0 <=> status[t].Decision = "buy"
        /\ skiplist[t] > 0 <=> Marked(status[t], TerminalSuffix)
        /\ Marked(status[t], RetrySuffix) =>
              boughtlist[t] = 0 /\ skiplist[t] = 0
        /\ status[t].Decision = "skip" =>
              Marked(status[t], TerminalSuffix) \/ Marked(status[t], RetrySuffix)

\* between two ticks: a record kept from an earlier tick next to the three
\* kinds of record
C28_Witness ==
    /\ phase = "ActiveTrading" /\ idx = 0 /\ ~crashed
    /\ Marked(status["T1"], RetrySuffix)
    /\ status["T2"].Decision = "buy"
    /\ Marked(status["X1"], TerminalSuffix)
    /\ status["T5"] = NoRecord


(***************************************************************************)
(* The prices of a submitted bracket order.                                *)
(***************************************************************************)
\* C29: every bracket order submitted has a quantity of at least one share
\* and prices ordered stop-loss < price < limit entry < take-profit; no
\* order is submitted when the clamped ceiling is at or below the price.
C29_SubmittedOrderIsWellFormed ==
    \A t \in Tickers :
        status[t].Decision = "buy" =>
            /\ status[t].OrderShares >= 1
            /\ RLt(status[t].FloorPrice, status[t].BuyPrice)
            /\ RLt(status[t].BuyPrice, status[t].BuyLimit)
            /\ RLt(status[t].BuyLimit, status[t].CeilingPrice)

\* C30: for every bracket order submitted for a family other than
\* Candlestick, the stop-loss price sent to the broker, the floor price
\* after the adjustment of line 206, is not above the recent low.
C30_StopNotAboveRecentLow ==
    (/\ phase = "ActiveTrading" /\ idx > 1
     /\ lasteval.outcome \in Submitted
     /\ LastAction.strategyfamily # "Candlestick")
        => RLe(status[LastAction.stock].FloorPrice, LastAction.recentlow)

=============================================================================
